---- MODULE Spec2Model ----
(***************************************************************************)
(* Model of scripts/build_mdx_from_data.py (document pipeline) and         *)
(* scripts/build_sqlite_from_data.py (relational pipeline).                *)
(*                                                                         *)
(* Text is a sequence of Unicode code points.  A JSON value is a tagged    *)
(* record [t, v]: t is the runtime type json.loads produced, v the payload *)
(* (code points of a string or of str(number), the items of a list, the    *)
(* key/child pairs of an object in insertion order).                       *)
(***************************************************************************)
EXTENDS Integers, Sequences, FiniteSets, TLC

(* ------------------------------ bounds -------------------------------- *)
MaxFiles == 2
MaxLines == 3
MaxBatch == 3

(* ------------------------------- text --------------------------------- *)
IsSpace(c) == c \in {9, 10, 13, 32}

RECURSIVE LStrip(_)
LStrip(s) == IF s # <<>> /\ IsSpace(Head(s)) THEN LStrip(Tail(s)) ELSE s

RECURSIVE RStrip(_)
RStrip(s) ==
    IF s # <<>> /\ IsSpace(s[Len(s)]) THEN RStrip(SubSeq(s, 1, Len(s) - 1)) ELSE s

\* str.strip()
Strip(s) == RStrip(LStrip(s))

\* str.lower(), on the ASCII letters the model uses
LowerChar(c) == IF c >= 65 /\ c <= 90 THEN c + 32 ELSE c
Lower(s) == [i \in 1..Len(s) |-> LowerChar(s[i])]

\* Python's str < str: lexicographic on code points
RECURSIVE StrLess(_, _)
StrLess(a, b) ==
    IF b = <<>> THEN FALSE
    ELSE IF a = <<>> THEN TRUE
    ELSE IF Head(a) # Head(b) THEN Head(a) < Head(b)
    ELSE StrLess(Tail(a), Tail(b))

\* sep.join(parts)
RECURSIVE Join(_, _)
Join(parts, sep) ==
    IF parts = <<>> THEN <<>>
    ELSE IF Len(parts) = 1 THEN parts[1]
    ELSE parts[1] \o sep \o Join(Tail(parts), sep)

\* [part for part in parts if part]
NonEmpty(parts) == SelectSeq(parts, LAMBDA p : p # <<>>)

\* html.escape(s) with quote=True
EscapeChar(c) ==
    CASE c = 38 -> <<38, 97, 109, 112, 59>>
      [] c = 60 -> <<38, 108, 116, 59>>
      [] c = 62 -> <<38, 103, 116, 59>>
      [] c = 34 -> <<38, 113, 117, 111, 116, 59>>
      [] c = 39 -> <<38, 35, 120, 50, 55, 59>>
      [] OTHER -> <<c>>

RECURSIVE Escape(_)
Escape(s) == IF s = <<>> THEN <<>> ELSE EscapeChar(Head(s)) \o Escape(Tail(s))

(* ---------------------------- JSON values ----------------------------- *)
JNull == [t |-> "null", v |-> <<>>]
JStr(s) == [t |-> "str", v |-> s]
JNum(s) == [t |-> "num", v |-> s]
JBool(b) == [t |-> "bool", v |-> IF b THEN <<1>> ELSE <<0>>]
JList(items) == [t |-> "list", v |-> items]
JDict(pairs) == [t |-> "dict", v |-> pairs]
KV(key, child) == [k |-> key, c |-> child]

\* dict.get(key): None when the key is absent
Get(d, key) ==
    IF \E i \in 1..Len(d.v) : d.v[i].k = key
    THEN d.v[CHOOSE i \in 1..Len(d.v) : d.v[i].k = key].c
    ELSE JNull

\* str(value) of a scalar; the repr of a container is kept opaque ("[...]")
StrOf(value) ==
    CASE value.t = "str" -> value.v
      [] value.t = "num" -> value.v
      [] value.t = "bool" ->
            IF value.v = <<1>> THEN <<84, 114, 117, 101>> ELSE <<70, 97, 108, 115, 101>>
      [] value.t = "null" -> <<78, 111, 110, 101>>
      [] OTHER -> <<91, 46, 46, 46, 93>>

\* the keys of the payloads, as text
K_word == <<119, 111, 114, 100>>
K_phonetic == <<112, 104, 111, 110, 101, 116, 105, 99>>
K_summary == <<115, 117, 109, 109, 97, 114, 121>>
K_definitions == <<100, 101, 102, 105, 110, 105, 116, 105, 111, 110, 115>>
K_synonyms == <<115, 121, 110, 111, 110, 121, 109, 115>>
K_extra == <<101, 120, 116, 114, 97, 95, 101, 120, 112, 108, 97, 110, 97, 116, 105, 111, 110>>
K_pos == <<112, 97, 114, 116, 79, 102, 83, 112, 101, 101, 99, 104>>
K_definition == <<100, 101, 102, 105, 110, 105, 116, 105, 111, 110>>
K_examples == <<101, 120, 97, 109, 112, 108, 101, 115>>
K_en == <<101, 110>>
K_zh == <<122, 104>>
K_uk == <<117, 107>>
K_us == <<117, 115>>

PHONETIC_LABEL_ZH(key) ==
    CASE Lower(key) = K_uk -> <<33521, 24335>>
      [] Lower(key) = K_us -> <<32654, 24335>>
      [] OTHER -> key

text_from_value(value) ==
    IF value.t = "str" THEN value.v
    ELSE IF value.t = "null" THEN <<>>
    ELSE StrOf(value)

RECURSIVE compact_text(_)
RECURSIVE CompactItems(_)
RECURSIVE CompactPairs(_)

\* [compact_text(item) for item in value]
CompactItems(items) ==
    IF items = <<>> THEN <<>>
    ELSE <<compact_text(Head(items))>> \o CompactItems(Tail(items))

\* the f"{key}: {child_text}" parts of the non-empty children
CompactPairs(pairs) ==
    IF pairs = <<>> THEN <<>>
    ELSE LET child_text == compact_text(Head(pairs).c)
         IN (IF child_text # <<>>
             THEN <<Head(pairs).k \o <<58, 32>> \o child_text>>
             ELSE <<>>) \o CompactPairs(Tail(pairs))

compact_text(value) ==
    CASE value.t = "null" -> <<>>
      [] value.t = "str" -> Strip(value.v)
      [] value.t \in {"num", "bool"} -> StrOf(value)
      [] value.t = "list" -> Join(NonEmpty(CompactItems(value.v)), <<59, 32>>)
      [] value.t = "dict" ->
            LET en == compact_text(Get(value, K_en))
                zh == compact_text(Get(value, K_zh))
            IN IF en # <<>> \/ zh # <<>>
               THEN Join(NonEmpty(<<en, zh>>), <<32>>)
               ELSE Join(CompactPairs(value.v), <<59, 32>>)
      [] OTHER -> Strip(StrOf(value))

(* --------------------------- rendered markup -------------------------- *)
(* The rendered document is the concatenation of blocks; a block is a      *)
(* markup literal of the source (m) or escaped text (x).                   *)
Tag(s) == [m |-> s, x |-> <<>>]
Txt(s) == [m |-> "", x |-> s]

RECURSIVE ListItems(_)
ListItems(items) ==
    IF items = <<>> THEN <<>>
    ELSE <<Tag("<li>"), Txt(Escape(Head(items))), Tag("</li>")>> \o ListItems(Tail(items))

render_string_list_section(title_zh, value) ==
    LET items ==
            IF value.t = "str"
            THEN (IF Strip(value.v) # <<>> THEN <<Strip(value.v)>> ELSE <<>>)
            ELSE IF value.t = "list"
            THEN NonEmpty(CompactItems(value.v))
            ELSE (IF compact_text(value) # <<>> THEN <<compact_text(value)>> ELSE <<>>)
    IN IF items = <<>> THEN <<>>
       ELSE <<Tag("<section class=\"section\">"),
              Tag("<h2 class=\"title\">"), Txt(Escape(title_zh)), Tag("</h2>"),
              Tag("<ul>")>>
            \o ListItems(items)
            \o <<Tag("</ul>"), Tag("</section>")>>

RECURSIVE PhoneticParts(_)
PhoneticParts(pairs) ==
    IF pairs = <<>> THEN <<>>
    ELSE LET text == compact_text(Head(pairs).c)
         IN (IF text # <<>>
             THEN <<PHONETIC_LABEL_ZH(Head(pairs).k) \o <<58, 32>> \o text>>
             ELSE <<>>) \o PhoneticParts(Tail(pairs))

render_phonetic(value) ==
    CASE value.t = "null" -> <<>>
      [] value.t = "str" -> Strip(value.v)
      [] value.t = "list" -> Join(NonEmpty(CompactItems(value.v)), <<32, 47, 32>>)
      [] value.t = "dict" -> Join(PhoneticParts(value.v), <<32, 124, 32>>)
      [] OTHER -> compact_text(value)

\* the <li> blocks of the examples whose text is not empty
RECURSIVE ExampleItems(_)
ExampleItems(examples) ==
    IF examples = <<>> THEN <<>>
    ELSE LET ex_text == compact_text(Head(examples))
         IN (IF ex_text # <<>>
             THEN <<Tag("<li>"), Txt(Escape(ex_text)), Tag("</li>")>>
             ELSE <<>>) \o ExampleItems(Tail(examples))

\* one pass of the loop over definitions
DefinitionItem(item) ==
    IF item.t = "dict"
    THEN LET pos == compact_text(Get(item, K_pos))
             definition_text == compact_text(Get(item, K_definition))
             line_parts == NonEmpty(<<pos, definition_text>>)
             examples == Get(item, K_examples)
         IN <<Tag("<li>")>>
            \o (IF line_parts # <<>>
                THEN <<Tag("<div class=\"def-line\">"),
                       Txt(Escape(Join(line_parts, <<32>>))), Tag("</div>")>>
                ELSE <<>>)
            \o (IF examples.t = "list" /\ examples.v # <<>>
                THEN <<Tag("<ul class=\"examples\">")>>
                     \o ExampleItems(examples.v)
                     \o <<Tag("</ul>")>>
                ELSE <<>>)
            \o <<Tag("</li>")>>
    ELSE LET line_text == compact_text(item)
         IN IF line_text = <<>> THEN <<>>
            ELSE <<Tag("<li>"), Txt(Escape(line_text)), Tag("</li>")>>

RECURSIVE DefinitionItems(_)
DefinitionItems(definitions) ==
    IF definitions = <<>> THEN <<>>
    ELSE DefinitionItem(Head(definitions)) \o DefinitionItems(Tail(definitions))

render_entry(word, payload) ==
    LET phonetic_text == render_phonetic(Get(payload, K_phonetic))
        summary == Get(payload, K_summary)
        summary_zh ==
            IF summary.t = "dict" THEN Strip(text_from_value(Get(summary, K_zh)))
            ELSE IF summary.t = "str" THEN Strip(summary.v)
            ELSE <<>>
        line_parts == NonEmpty(<<phonetic_text, summary_zh>>)
        definitions == Get(payload, K_definitions)
    IN <<Tag("<div class=\"entry\">"),
         Tag("<h1 class=\"word\">"), Txt(Escape(word)), Tag("</h1>")>>
       \o (IF line_parts # <<>>
           THEN <<Tag("<div class=\"phonetic-summary\">"),
                  Txt(Escape(Join(line_parts, <<32>>))), Tag("</div>")>>
           ELSE <<>>)
       \o (IF definitions.t = "list" /\ definitions.v # <<>>
           THEN <<Tag("<section class=\"section\">"), Tag("<ol>")>>
                \o DefinitionItems(definitions.v)
                \o <<Tag("</ol>"), Tag("</section>")>>
           ELSE <<>>)
       \o render_string_list_section(<<30456, 20851, 35789>>, Get(payload, K_synonyms))
       \o render_string_list_section(<<39069, 22806, 35828, 26126>>, Get(payload, K_extra))
       \o <<Tag("</div>")>>

(* ------------------------------- input -------------------------------- *)
(* A physical line of a shard file: ws = 1 when spaces surround its text,  *)
(* src tells what the text is ("empty", "garbage": no JSON document,       *)
(* "json": the document val).                                               *)
RawLine(ws, src, val) == [ws |-> ws, src |-> src, val |-> val]

\* raw_line.strip()
StripLine(raw_line) == [raw_line EXCEPT !.ws = 0]

W_a == <<97>>
W_A == <<65>>
W_B == <<66>>

Record(word, fields) == JDict(<<KV(K_word, JStr(word))>> \o fields)

BlankLines == {RawLine(0, "empty", JNull), RawLine(1, "empty", JNull)}

ValidLines ==
    { RawLine(0, "json", Record(W_a, <<>>)),
      RawLine(1, "json", Record(W_a, <<KV(K_summary, JStr(<<120>>))>>)),
      RawLine(0, "json", Record(W_A, <<>>)),
      RawLine(0, "json", Record(W_B, <<>>)) }

InvalidLines ==
    { RawLine(0, "garbage", JNull),
      RawLine(0, "json", JList(<<>>)),
      RawLine(0, "json", JDict(<<>>)),
      RawLine(0, "json", JDict(<<KV(K_word, JNum(<<49>>))>>)),
      RawLine(0, "json", JDict(<<KV(K_word, JStr(<<>>))>>)) }

Lines == BlankLines \cup ValidLines \cup InvalidLines

\* the data directory: absent, a plain file, or a directory of entries;
\* shard = the entry matches *.ndjson and is a file.  The directories are the
\* empty one and those holding one other entry and the shards 1..k.
DirEntries(k) ==
    {[name |-> n, shard |-> TRUE] : n \in 1..k} \cup {[name |-> 0, shard |-> FALSE]}

DataDirs ==
    {[kind |-> "missing", entries |-> {}], [kind |-> "file", entries |-> {}],
     [kind |-> "dir", entries |-> {}]}
    \cup {[kind |-> "dir", entries |-> DirEntries(k)] : k \in 0..MaxFiles}

\* the output path
Absent == [kind |-> "absent", wellFormed |-> FALSE, data |-> <<>>]
Old == [kind |-> "old", wellFormed |-> TRUE, data |-> <<>>]

NoError == [kind |-> "none", file |-> 0, line |-> 0]

VARIABLES
    script,       \* "mdx" | "sqlite" | "render"
    pc,           \* position of main()
    dataDir,      \* what --data-dir names
    outFile,      \* what the output path holds
    preExisting,  \* what the output path held when the run began
    batchSize,    \* --batch-size
    ndjsonFiles,  \* main's ndjson_files
    fileIdx,      \* position of the loop over the shard files
    lineNo,       \* enumerate(handle, start=1)
    content,      \* shard name -> the lines read from it so far
    handles,      \* the open file handles
    entries,      \* load_entries' dict, in insertion order
    overwritten,  \* load_entries' counter
    mdxItems,     \* the items handed to MDictWriter
    batch,        \* import_rows' batch
    readRows,     \* import_rows' read_rows
    storedRows,   \* import_rows' stored_rows
    table,        \* the words table as the connection sees it
    conn,         \* "none" | "open" | "closed"
    err,          \* the SystemExit message
    payloadIn,    \* renderer: the record
    htmlOut       \* renderer: the blocks render_entry returned

vars == <<script, pc, dataDir, outFile, preExisting, batchSize, ndjsonFiles, fileIdx,
          lineNo, content, handles, entries, overwritten, mdxItems, batch, readRows,
          storedRows, table, conn, err, payloadIn, htmlOut>>

envVars == <<script, dataDir, preExisting, batchSize, payloadIn, htmlOut>>
mdxVars == <<entries, overwritten, mdxItems>>
sqlVars == <<batch, readRows, storedRows, table, conn>>
scanVars == <<fileIdx, lineNo, content, handles>>

(* ----------------------------- shared code ---------------------------- *)
\* sorted(...) of a set of shard names
RECURSIVE SortedNames(_)
SortedNames(S) ==
    IF S = {} THEN <<>>
    ELSE LET m == CHOOSE x \in S : \A y \in S : x <= y
         IN <<m>> \o SortedNames(S \ {m})

iter_ndjson_files(data_dir) ==
    SortedNames({e.name : e \in {d \in data_dir.entries : d.shard}})

TotalRead == LET RECURSIVE Sum(_)
                 Sum(S) == IF S = {} THEN 0
                           ELSE LET f == CHOOSE x \in S : TRUE
                                IN Len(content[f]) + Sum(S \ {f})
             IN Sum(DOMAIN content)

InitCommon ==
    /\ pc = "start"
    /\ dataDir \in DataDirs
    /\ outFile \in {Absent, Old}
    /\ preExisting = outFile
    /\ ndjsonFiles = <<>>
    /\ fileIdx = 1
    /\ lineNo = 0
    /\ content = [n \in 1..MaxFiles |-> <<>>]
    /\ handles = {}
    /\ entries = <<>>
    /\ overwritten = 0
    /\ mdxItems = <<>>
    /\ batch = <<>>
    /\ readRows = 0
    /\ storedRows = 0
    /\ table = <<>>
    /\ conn = "none"
    /\ err = NoError
    /\ payloadIn = JNull
    /\ htmlOut = <<>>

Init ==
    /\ \/ script = "mdx" /\ batchSize = 0
       \/ script = "sqlite" /\ batchSize \in 0..MaxBatch
    /\ InitCommon

\* raise SystemExit(...): the run ends with the message
Exit(kind, file, line) ==
    /\ pc' = "aborted"
    /\ err' = [kind |-> kind, file |-> file, line |-> line]

\* the line a shard file yields next: any line, while the bound allows one
NextLine(raw_line) == raw_line \in Lines /\ TotalRead < MaxLines

(* ------------------- build_mdx_from_data.py: load_entries ------------- *)
\* a faulty MdxLineError: an empty word passes
MdxLineErrorNoEmptyCheck(line) ==
    IF line.src = "garbage" THEN "invalid_json"
    ELSE IF line.val.t # "dict" THEN "not_object"
    ELSE IF Get(line.val, K_word).t # "str" THEN "bad_word" ELSE "none"

\* what the checks of one stripped, non-blank line raise ("none": nothing)
MdxLineError(line) ==
    IF line.src = "garbage" THEN "invalid_json"
    ELSE IF line.val.t # "dict" THEN "not_object"
    ELSE LET word == Get(line.val, K_word)
         IN IF word.t # "str" \/ word.v = <<>> THEN "bad_word" ELSE "none"

\* word in entries
DictHas(d, word) == \E i \in 1..Len(d) : d[i].word = word

\* a faulty DictSet: entries.setdefault(word, html), the first occurrence stays
DictSetKeepFirst(d, word, html) ==
    IF DictHas(d, word) THEN d ELSE Append(d, [word |-> word, html |-> html])

\* entries[word] = html: overwrite in place, or insert at the end
DictSet(d, word, html) ==
    IF DictHas(d, word)
    THEN [i \in 1..Len(d) |-> IF d[i].word = word THEN [d[i] EXCEPT !.html = html] ELSE d[i]]
    ELSE Append(d, [word |-> word, html |-> html])

\* a faulty CountOverwrite: the counter counts every record
CountEveryRecord(d, word, count) == count + 1

\* if word in entries: overwritten += 1
CountOverwrite(d, word, count) == IF DictHas(d, word) THEN count + 1 ELSE count

\* the files load_entries iterates (it lists the directory again)
MdxLoadFiles == iter_ndjson_files(dataDir)

\* with file_path.open(...) as handle
MdxOpenFile ==
    /\ script = "mdx" /\ pc = "load"
    /\ fileIdx <= Len(MdxLoadFiles)
    /\ handles' = handles \cup {MdxLoadFiles[fileIdx]}
    /\ lineNo' = 0
    /\ pc' = "read"
    /\ UNCHANGED <<envVars, mdxVars, sqlVars, outFile, ndjsonFiles, fileIdx, content, err>>

\* one pass of the loop over the lines of the open file
MdxReadLine ==
    /\ script = "mdx" /\ pc = "read"
    /\ \E raw_line \in Lines :
         /\ NextLine(raw_line)
         /\ LET file_path == MdxLoadFiles[fileIdx]
                line_no == lineNo + 1
                line == StripLine(raw_line)
                word == Get(line.val, K_word).v
            IN /\ content' = [content EXCEPT ![file_path] = Append(@, raw_line)]
               /\ lineNo' = line_no
               /\ IF line.src = "empty"
                  THEN UNCHANGED <<pc, err, handles, mdxVars>>
                  ELSE IF MdxLineError(line) # "none"
                  THEN /\ Exit(MdxLineError(line), file_path, line_no)
                       /\ handles' = handles \ {file_path}
                       /\ UNCHANGED mdxVars
                  ELSE /\ overwritten' = CountOverwrite(entries, word, overwritten)
                       /\ entries' = DictSet(entries, word, render_entry(word, line.val))
                       /\ UNCHANGED <<pc, err, handles, mdxItems>>
    /\ UNCHANGED <<envVars, sqlVars, outFile, ndjsonFiles, fileIdx>>

\* the file is exhausted: the with block closes it, the outer loop goes on
MdxEndOfFile ==
    /\ script = "mdx" /\ pc = "read"
    /\ handles' = handles \ {MdxLoadFiles[fileIdx]}
    /\ fileIdx' = fileIdx + 1
    /\ pc' = "load"
    /\ UNCHANGED <<envVars, mdxVars, sqlVars, outFile, ndjsonFiles, lineNo, content, err>>

(* ----------------------- build_mdx_from_data.py: main ----------------- *)
\* from mdict_utils... import MDictWriter: present, or ImportError
MdxImport ==
    /\ script = "mdx" /\ pc = "start"
    /\ \/ pc' = "check_dir" /\ UNCHANGED err
       \/ Exit("dependency", 0, 0)
    /\ UNCHANGED <<envVars, mdxVars, sqlVars, scanVars, outFile, ndjsonFiles>>

MdxCheckDataDir ==
    /\ script = "mdx" /\ pc = "check_dir"
    /\ IF dataDir.kind # "dir"
       THEN Exit("data_dir", 0, 0)
       ELSE pc' = "list" /\ UNCHANGED err
    /\ UNCHANGED <<envVars, mdxVars, sqlVars, scanVars, outFile, ndjsonFiles>>

MdxListFiles ==
    /\ script = "mdx" /\ pc = "list"
    /\ ndjsonFiles' = iter_ndjson_files(dataDir)
    /\ IF ndjsonFiles' = <<>>
       THEN Exit("no_files", 0, 0)
       ELSE pc' = "load" /\ UNCHANGED err
    /\ UNCHANGED <<envVars, mdxVars, sqlVars, scanVars, outFile>>

\* load_entries returns; if not entries: raise SystemExit
MdxCheckEntries ==
    /\ script = "mdx" /\ pc = "load"
    /\ fileIdx > Len(MdxLoadFiles)
    /\ IF entries = <<>>
       THEN Exit("no_entries", 0, 0)
       ELSE pc' = "sort" /\ UNCHANGED err
    /\ UNCHANGED <<envVars, mdxVars, sqlVars, scanVars, outFile, ndjsonFiles>>

\* a faulty KeyLess: the key is kv[0].lower() alone
KeyLessNoTieBreak(a, b) == StrLess(Lower(a.word), Lower(b.word))

\* the key (kv[0].lower(), kv[0]) of a is less than that of b
KeyLess(a, b) ==
    \/ StrLess(Lower(a.word), Lower(b.word))
    \/ Lower(a.word) = Lower(b.word) /\ StrLess(a.word, b.word)

\* sorted(items, key=...): stable, by insertion
RECURSIVE InsertSorted(_, _)
InsertSorted(sortedSeq, item) ==
    IF sortedSeq = <<>> THEN <<item>>
    ELSE IF KeyLess(item, Head(sortedSeq)) THEN <<item>> \o sortedSeq
    ELSE <<Head(sortedSeq)>> \o InsertSorted(Tail(sortedSeq), item)

RECURSIVE SortItems(_)
SortItems(items) ==
    IF items = <<>> THEN <<>>
    ELSE InsertSorted(SortItems(SubSeq(items, 1, Len(items) - 1)), items[Len(items)])

\* {word: html_text for word, html_text in sorted_items}
RECURSIVE DictFromItems(_)
DictFromItems(items) ==
    IF items = <<>> THEN <<>>
    ELSE DictSet(DictFromItems(SubSeq(items, 1, Len(items) - 1)),
                 items[Len(items)].word, items[Len(items)].html)

MdxSort ==
    /\ script = "mdx" /\ pc = "sort"
    /\ mdxItems' = DictFromItems(SortItems(entries))
    /\ pc' = "open_out"
    /\ UNCHANGED <<envVars, sqlVars, scanVars, outFile, ndjsonFiles, entries, overwritten, err>>

\* MDictWriter(...); mkdir; out_mdx.open("wb") truncates or creates the file
MdxOpenOut ==
    /\ script = "mdx" /\ pc = "open_out"
    /\ outFile' = [kind |-> "mdx", wellFormed |-> FALSE, data |-> <<>>]
    /\ handles' = handles \cup {0}
    /\ pc' = "write"
    /\ UNCHANGED <<envVars, mdxVars, sqlVars, ndjsonFiles, fileIdx, lineNo, content, err>>

\* writer.write(handle); the with block closes the file; the summary is printed
MdxWrite ==
    /\ script = "mdx" /\ pc = "write"
    /\ outFile' = [kind |-> "mdx", wellFormed |-> TRUE, data |-> mdxItems]
    /\ handles' = handles \ {0}
    /\ pc' = "done"
    /\ UNCHANGED <<envVars, mdxVars, sqlVars, ndjsonFiles, fileIdx, lineNo, content, err>>

MdxNext ==
    \/ MdxImport
    \/ MdxCheckDataDir
    \/ MdxListFiles
    \/ MdxOpenFile
    \/ MdxReadLine
    \/ MdxEndOfFile
    \/ MdxCheckEntries
    \/ MdxSort
    \/ MdxOpenOut
    \/ MdxWrite

(* ------------------- build_sqlite_from_data.py ------------------------ *)
SqlLineError(line) ==
    IF line.src = "garbage" THEN "invalid_json"
    ELSE IF line.val.t # "dict" THEN "not_object"
    ELSE LET word == Get(line.val, K_word)
         IN IF word.t # "str" \/ word.v = <<>> THEN "bad_word" ELSE "none"

\* a faulty Upsert: INSERT OR IGNORE, the first definition stays
InsertOrIgnore(rows, word, definition) ==
    IF \E i \in 1..Len(rows) : rows[i].word = word
    THEN rows
    ELSE Append(rows, [word |-> word, definition |-> definition])

\* INSERT ... ON CONFLICT(word) DO UPDATE SET definition=excluded.definition
Upsert(rows, word, definition) ==
    IF \E i \in 1..Len(rows) : rows[i].word = word
    THEN [i \in 1..Len(rows) |->
            IF rows[i].word = word THEN [rows[i] EXCEPT !.definition = definition]
            ELSE rows[i]]
    ELSE Append(rows, [word |-> word, definition |-> definition])

\* conn.executemany(..., batch): the statement runs once per row, in order
RECURSIVE flush_batch(_, _)
flush_batch(rows, rowBatch) ==
    IF rowBatch = <<>> THEN rows
    ELSE flush_batch(Upsert(rows, Head(rowBatch).word, Head(rowBatch).definition),
                     Tail(rowBatch))

SqlCheckBatchSize ==
    /\ script = "sqlite" /\ pc = "start"
    /\ IF batchSize < 1
       THEN Exit("batch_size", 0, 0)
       ELSE pc' = "check_dir" /\ UNCHANGED err
    /\ UNCHANGED <<envVars, mdxVars, sqlVars, scanVars, outFile, ndjsonFiles>>

SqlCheckDataDir ==
    /\ script = "sqlite" /\ pc = "check_dir"
    /\ IF dataDir.kind # "dir"
       THEN Exit("data_dir", 0, 0)
       ELSE pc' = "list" /\ UNCHANGED err
    /\ UNCHANGED <<envVars, mdxVars, sqlVars, scanVars, outFile, ndjsonFiles>>

\* a faulty SqlListFiles: the empty listing is not refused
SqlListFilesUnchecked ==
    /\ script = "sqlite" /\ pc = "list"
    /\ ndjsonFiles' = iter_ndjson_files(dataDir)
    /\ pc' = "prepare_out"
    /\ UNCHANGED <<envVars, mdxVars, sqlVars, scanVars, outFile, err>>

SqlListFiles ==
    /\ script = "sqlite" /\ pc = "list"
    /\ ndjsonFiles' = iter_ndjson_files(dataDir)
    /\ IF ndjsonFiles' = <<>>
       THEN Exit("no_files", 0, 0)
       ELSE pc' = "prepare_out" /\ UNCHANGED err
    /\ UNCHANGED <<envVars, mdxVars, sqlVars, scanVars, outFile>>

\* mkdir; if out_db.exists(): out_db.unlink()
SqlPrepareOut ==
    /\ script = "sqlite" /\ pc = "prepare_out"
    /\ outFile' = Absent
    /\ pc' = "connect"
    /\ UNCHANGED <<envVars, mdxVars, sqlVars, scanVars, ndjsonFiles, err>>

\* sqlite3.connect creates the database; the PRAGMAs and the DDL of
\* create_schema run outside any transaction, so they are durable at once
SqlConnect ==
    /\ script = "sqlite" /\ pc = "connect"
    /\ conn' = "open"
    /\ table' = <<>>
    /\ outFile' = [kind |-> "sqlite", wellFormed |-> TRUE, data |-> <<>>]
    /\ batch' = <<>>
    /\ readRows' = 0
    /\ pc' = "load"
    /\ UNCHANGED <<envVars, mdxVars, scanVars, ndjsonFiles, storedRows, err>>

SqlOpenFile ==
    /\ script = "sqlite" /\ pc = "load"
    /\ fileIdx <= Len(ndjsonFiles)
    /\ handles' = handles \cup {ndjsonFiles[fileIdx]}
    /\ lineNo' = 0
    /\ pc' = "read"
    /\ UNCHANGED <<envVars, mdxVars, sqlVars, outFile, ndjsonFiles, fileIdx, content, err>>

\* one pass of the loop over the lines of the open file; a SystemExit leaves
\* the with blocks: the file is closed, the connection rolls back (and stays open)
SqlReadLine ==
    /\ script = "sqlite" /\ pc = "read"
    /\ \E raw_line \in Lines :
         /\ NextLine(raw_line)
         /\ LET file_path == ndjsonFiles[fileIdx]
                line_no == lineNo + 1
                line == StripLine(raw_line)
                word == Get(line.val, K_word).v
                appended == Append(batch, [word |-> word, definition |-> line])
            IN /\ content' = [content EXCEPT ![file_path] = Append(@, raw_line)]
               /\ lineNo' = line_no
               /\ IF line.src = "empty"
                  THEN UNCHANGED <<pc, err, handles, batch, readRows, table>>
                  ELSE IF SqlLineError(line) # "none"
                  THEN /\ Exit(SqlLineError(line), file_path, line_no)
                       /\ handles' = handles \ {file_path}
                       /\ table' = outFile.data
                       /\ UNCHANGED <<batch, readRows>>
                  ELSE /\ readRows' = readRows + 1
                       /\ IF Len(appended) >= batchSize
                          THEN table' = flush_batch(table, appended) /\ batch' = <<>>
                          ELSE table' = table /\ batch' = appended
                       /\ UNCHANGED <<pc, err, handles>>
    /\ UNCHANGED <<envVars, mdxVars, outFile, ndjsonFiles, fileIdx, storedRows, conn>>

SqlEndOfFile ==
    /\ script = "sqlite" /\ pc = "read"
    /\ handles' = handles \ {ndjsonFiles[fileIdx]}
    /\ fileIdx' = fileIdx + 1
    /\ pc' = "load"
    /\ UNCHANGED <<envVars, mdxVars, sqlVars, outFile, ndjsonFiles, lineNo, content, err>>

\* after the loop: flush_batch(conn, batch); SELECT COUNT(*); return
SqlFinalFlush ==
    /\ script = "sqlite" /\ pc = "load"
    /\ fileIdx > Len(ndjsonFiles)
    /\ table' = flush_batch(table, batch)
    /\ batch' = <<>>
    /\ storedRows' = Len(table')
    /\ pc' = "commit"
    /\ UNCHANGED <<envVars, mdxVars, scanVars, outFile, ndjsonFiles, readRows, conn, err>>

\* conn.commit(); the with block ends (it commits, it does not close);
\* the summary is printed
SqlCommit ==
    /\ script = "sqlite" /\ pc = "commit"
    /\ outFile' = [outFile EXCEPT !.data = table]
    /\ pc' = "done"
    /\ UNCHANGED <<envVars, mdxVars, sqlVars, scanVars, ndjsonFiles, err>>

SqlNext ==
    \/ SqlCheckBatchSize
    \/ SqlCheckDataDir
    \/ SqlListFiles
    \/ SqlPrepareOut
    \/ SqlConnect
    \/ SqlOpenFile
    \/ SqlReadLine
    \/ SqlEndOfFile
    \/ SqlFinalFlush
    \/ SqlCommit

Next == MdxNext \/ SqlNext

Spec == Init /\ [][Next]_vars

(* ------------------------ the renderer alone -------------------------- *)
T_x == <<120>>
T_blank == <<32>>

Optional(key, values) == {<<>>} \cup {<<KV(key, v)>> : v \in values}

DefinitionValues ==
    { JList(<<>>),
      JList(<<JStr(<<>>)>>),
      JList(<<JStr(T_x)>>),
      JList(<<JDict(<<>>)>>),
      JList(<<JDict(<<KV(K_definition, JStr(T_x))>>)>>),
      JList(<<JDict(<<KV(K_examples, JList(<<JStr(T_blank)>>))>>)>>),
      JList(<<JDict(<<KV(K_definition, JStr(T_x)), KV(K_examples, JList(<<>>))>>)>>),
      JList(<<JDict(<<KV(K_pos, JStr(T_x)), KV(K_definition, JStr(T_x)),
                      KV(K_examples, JList(<<JStr(T_x)>>))>>)>>),
      JList(<<JStr(T_x), JStr(<<>>), JDict(<<KV(K_definition, JStr(T_x))>>)>>) }

SectionValues ==
    { JNull, JStr(<<>>), JStr(T_blank), JStr(T_x), JList(<<>>), JList(<<JStr(<<>>)>>),
      JList(<<JStr(T_x), JDict(<<KV(K_en, JStr(T_x)), KV(K_zh, JStr(T_x))>>)>>),
      JDict(<<>>), JNum(<<49>>) }

PhoneticValues ==
    { JStr(T_blank), JStr(T_x), JList(<<JStr(T_x), JStr(T_x)>>),
      JDict(<<KV(K_uk, JStr(T_x)), KV(K_us, JStr(<<>>))>>) }

SummaryValues == { JStr(T_x), JStr(<<>>), JDict(<<KV(K_zh, JStr(T_x))>>), JDict(<<>>) }

Payloads ==
    { Record(W_a, p \o s \o d \o y \o e) :
        p \in Optional(K_phonetic, PhoneticValues),
        s \in Optional(K_summary, SummaryValues),
        d \in Optional(K_definitions, DefinitionValues),
        y \in Optional(K_synonyms, SectionValues),
        e \in Optional(K_extra, {JStr(T_x), JList(<<>>)}) }

InitRender ==
    /\ script = "render" /\ batchSize = 0
    /\ InitCommon
    /\ dataDir = [kind |-> "missing", entries |-> {}]
    /\ outFile = Absent

\* the record to render: any of the payloads
ChoosePayload ==
    /\ script = "render" /\ pc = "start"
    /\ payloadIn' \in Payloads
    /\ pc' = "render"
    /\ UNCHANGED <<script, dataDir, preExisting, batchSize, htmlOut, mdxVars, sqlVars,
                   scanVars, outFile, ndjsonFiles, err>>

Render ==
    /\ script = "render" /\ pc = "render"
    /\ htmlOut' = render_entry(Get(payloadIn, K_word).v, payloadIn)
    /\ pc' = "rendered"
    /\ UNCHANGED <<script, dataDir, preExisting, batchSize, payloadIn, mdxVars, sqlVars,
                   scanVars, outFile, ndjsonFiles, err>>

NextRender == ChoosePayload \/ Render

SpecRender == InitRender /\ [][NextRender]_vars

(* ============================ properties ============================== *)
(* The lines read so far, in shard-name then line order, taken from the    *)
(* files' contents (not from the program's own bookkeeping).               *)
RECURSIVE ReadFrom(_)
ReadFrom(n) == IF n > MaxFiles THEN <<>> ELSE content[n] \o ReadFrom(n + 1)

ReadLines == ReadFrom(1)
Accepted == SelectSeq(ReadLines, LAMBDA l : l \in ValidLines)
WordOf(l) == Get(l.val, K_word).v
AcceptedWords == {WordOf(Accepted[i]) : i \in 1..Len(Accepted)}
LastWith(w) ==
    Accepted[CHOOSE i \in 1..Len(Accepted) :
                /\ WordOf(Accepted[i]) = w
                /\ \A j \in (i + 1)..Len(Accepted) : WordOf(Accepted[j]) # w]
BlankRead == \E i \in 1..Len(ReadLines) : ReadLines[i] \in BlankLines
MalformedKinds == {"invalid_json", "not_object", "bad_word"}
ConfigKinds == {"batch_size", "data_dir", "no_files"}
Ended == pc \in {"done", "aborted"}

\* C1: in the document pipeline the entries mapping has exactly one key per
\* distinct accepted word, and the value under each word is the rendering of
\* the last accepted record carrying that word in file-then-line order.
C1_LastOccurrenceWins ==
    script = "mdx" =>
        /\ {entries[i].word : i \in 1..Len(entries)} = AcceptedWords
        /\ Len(entries) = Cardinality(AcceptedWords)
        /\ \A i \in 1..Len(entries) :
              entries[i].html = render_entry(entries[i].word, LastWith(entries[i].word).val)

C1_Witness ==
    /\ script = "mdx" /\ pc = "sort"
    /\ Len(Accepted) = 3 /\ Len(entries) = 2
    /\ WordOf(Accepted[1]) = W_a /\ WordOf(Accepted[2]) = W_B /\ WordOf(Accepted[3]) = W_a
    /\ Accepted[1].val # Accepted[3].val
    /\ content[1] # <<>> /\ content[2] # <<>>

\* C2: the overwrite counter equals the number of accepted records minus the
\* number of keys of the mapping after every processed record, and a step
\* that reads a blank line changes neither the counter nor the mapping.
C2_OverwriteCounter ==
    /\ [](script = "mdx" => overwritten = Len(Accepted) - Len(entries))
    /\ [][(script = "mdx" /\ (\E n \in 1..MaxFiles :
                                /\ Len(content'[n]) = Len(content[n]) + 1
                                /\ content'[n][Len(content'[n])] \in BlankLines))
            => UNCHANGED <<entries, overwritten>>]_vars

C2_Witness ==
    /\ script = "mdx" /\ pc = "done"
    /\ overwritten = 1 /\ Len(entries) = 1 /\ BlankRead

\* C3: when import_rows has returned, the words table holds exactly one row
\* per distinct accepted word, whose definition is the stripped line of the
\* last accepted record with that word, for every batch size >= 1;
\* rows_read is the number of accepted lines, rows_in_words the number of
\* distinct words, and the committed database holds that table.
C3_UpsertLastLine ==
    (script = "sqlite" /\ pc \in {"commit", "done"}) =>
        /\ {table[i] : i \in 1..Len(table)} =
              {[word |-> w, definition |-> StripLine(LastWith(w))] : w \in AcceptedWords}
        /\ Len(table) = Cardinality(AcceptedWords)
        /\ readRows = Len(Accepted)
        /\ storedRows = Cardinality(AcceptedWords)
        /\ batch = <<>>
        /\ pc = "done" => outFile.data = table

C3_Witness ==
    /\ script = "sqlite" /\ pc = "done" /\ batchSize = 2
    /\ readRows = 3 /\ storedRows = 1
    /\ Accepted[1] # Accepted[3] /\ Accepted[3].ws = 1
    /\ outFile.data = <<[word |-> W_a, definition |-> StripLine(Accepted[3])]>>

\* C4: in both pipelines a malformed line ends the run at once: the error
\* names its file and its 1-based physical line number, every line read
\* before it is blank or valid, nothing is read after it (in that file or a
\* later one), no malformed line is ever passed over, and the records
\* accumulated are exactly the valid lines read.
C4_AbortAtFirstBadLine ==
    /\ \A n \in 1..MaxFiles : \A i \in 1..Len(content[n]) :
          content[n][i] \in InvalidLines =>
              /\ pc = "aborted"
              /\ err.kind \in MalformedKinds
              /\ err.file = n /\ err.line = i
              /\ i = Len(content[n])
              /\ \A m \in (n + 1)..MaxFiles : content[m] = <<>>
    /\ (pc = "aborted" /\ err.kind \in MalformedKinds) =>
          /\ err.file \in 1..MaxFiles
          /\ err.line \in 1..Len(content[err.file])
          /\ content[err.file][err.line] \in InvalidLines
    /\ script = "mdx" => Len(entries) + overwritten = Len(Accepted)
    /\ script = "sqlite" => readRows = Len(Accepted)

C4_Witness ==
    /\ script = "sqlite" /\ pc = "aborted"
    /\ err.file = 2 /\ err.line = 2
    /\ Len(content[1]) = 1 /\ content[1][1] \in ValidLines
    /\ content[2][1] \in BlankLines

\* C5: when the run aborts on a malformed record, the output path holds no
\* well-formed output of this run.
C5_NoOutputOnAbort ==
    (pc = "aborted" /\ err.kind \in MalformedKinds) =>
        (outFile.kind \in {"mdx", "sqlite"} => ~outFile.wellFormed)

\* C6: when the run has ended, normally or by an abort, no file handle and
\* no database connection is still open.
C6_ResourcesReleased == Ended => (handles = {} /\ conn # "open")

\* C7: the items handed to the writer are a permutation of the accumulated
\* entries, strictly ascending under the key (lower-cased word, word).
KeyBefore(a, b) ==
    \/ StrLess(Lower(a), Lower(b))
    \/ Lower(a) = Lower(b) /\ StrLess(a, b)

C7_SortedPermutation ==
    (script = "mdx" /\ pc \in {"open_out", "write", "done"}) =>
        /\ Len(mdxItems) = Len(entries)
        /\ {mdxItems[i] : i \in 1..Len(mdxItems)} = {entries[i] : i \in 1..Len(entries)}
        /\ \A i \in 1..Len(mdxItems) : \A j \in 1..Len(mdxItems) :
              i < j => KeyBefore(mdxItems[i].word, mdxItems[j].word)
        /\ pc = "done" => outFile.data = mdxItems

C7_Witness ==
    /\ script = "mdx" /\ pc = "done"
    /\ Len(entries) = 3
    /\ entries[1].word = W_a /\ entries[2].word = W_B /\ entries[3].word = W_A
    /\ mdxItems[1].word = W_A /\ mdxItems[2].word = W_a /\ mdxItems[3].word = W_B

\* C8: render_entry emits no empty section, list, list item or examples
\* list: no opening block of one is directly followed by its closing block.
EmptyPairs ==
    { <<"<ol>", "</ol>">>, <<"<ul>", "</ul>">>, <<"<li>", "</li>">>,
      <<"<ul class=\"examples\">", "</ul>">>,
      <<"<section class=\"section\">", "</section>">> }

HasEmptyElement(html) ==
    \/ \E i \in 1..(Len(html) - 1) : <<html[i].m, html[i + 1].m>> \in EmptyPairs
    \/ \E i \in 2..Len(html) : html[i - 1].m = "<li>" /\ html[i] = Txt(<<>>)

C8_NoEmptySection == pc = "rendered" => ~HasEmptyElement(htmlOut)

\* C9: in either pipeline a scan that ends with zero entries loaded is not a
\* success: the run does not complete.
C9_EmptyResultIsFatal == pc = "done" => Len(Accepted) > 0

\* C10: when the batch size is < 1, the data directory is missing or no
\* directory, or it holds no shard file, the run gets no further than its
\* checks: no shard line is read, no file or connection is opened, and the
\* output path holds what it held before the run; the abort names a
\* configuration error (or the missing dependency).
ConfigBad ==
    \/ script = "sqlite" /\ batchSize < 1
    \/ dataDir.kind # "dir"
    \/ ~(\E e \in dataDir.entries : e.shard)

C10_ConfigErrorsTouchNothing ==
    /\ ConfigBad =>
          /\ pc \in {"start", "check_dir", "list", "aborted"}
          /\ outFile = preExisting
          /\ TotalRead = 0 /\ handles = {} /\ conn = "none"
          /\ pc = "aborted" => err.kind \in ConfigKinds \cup {"dependency"}
    /\ (pc = "aborted" /\ err.kind \in ConfigKinds) => (ConfigBad /\ outFile = preExisting)

C10_Witness ==
    /\ script = "sqlite" /\ pc = "aborted" /\ err.kind = "no_files"
    /\ batchSize >= 1 /\ dataDir.kind = "dir" /\ dataDir.entries # {}
    /\ preExisting = Old /\ outFile = Old

====
